---- MODULE Spec2Model ----
(***************************************************************************)
(* commit-date-changer: the date-constrained history rewrite engine.       *)
(*                                                                         *)
(* The repository is a linear history, newest commit first (the order of   *)
(* `git log`).  Time is counted in ticks of git's timestamp resolution.    *)
(* A full hash is the sequence <<short digit, 0, serial>>: its first       *)
(* ShortLen elements are the short hash (entry.hash.substring(0, 7)), so   *)
(* two commits may share a short hash while their full hashes differ.      *)
(***************************************************************************)
EXTENDS Integers, Sequences, FiniteSets, TLC

VARIABLES
  history,      \* the commits of the branch, newest first:
                \* [fullHash, authorDate, committerDate, content]
  nPushed,      \* how many of the oldest commits are contained in a remote-tracking branch
  hasUpstream,  \* whether the current branch has an upstream tracking branch
  workTree,     \* the working directory: "clean", "dirty" or "notRepo"
  backupRefs,   \* whether references exist under refs/original/
  now,          \* the clock (new Date())
  pc,           \* position of main()
  opts,         \* the command line options
  commits,      \* main(): the commit listing held by the interactive loop
  run,          \* what the current invocation / cycle did (calls made, result)
  cycles        \* number of rewrite cycles started so far

vars == <<history, nPushed, hasUpstream, workTree, backupRefs, now, pc, opts, commits, run, cycles>>

-----------------------------------------------------------------------------
(* Bounds of the model *)

NumCommits == 3      \* commits in the history
NumShorts == 3       \* distinct short hashes commits draw from
MaxTime == 3         \* the clock and the dates range over 0..MaxTime
TicksPerMinute == 2  \* ticks that share one "YYYY-MM-DDTHH:mm" prefix
MaxCycles == 2       \* cycles of one interactive session
MaxFaults == 1       \* failing VCS commands per invocation, listing or session
NewShorts == 1       \* short hashes a rewritten commit may come out with

(* Program constants *)

ShortLen == 1        \* length of Commit.hash (7 characters of 40, scaled to 1 of 3)
CliLimit == 100      \* the listing limit of CLI mode
NoDate == -1         \* null in Date | null

-----------------------------------------------------------------------------
(* Small helpers *)

Min(a, b) == IF a <= b THEN a ELSE b

IsPrefix(t, s) == Len(t) <= Len(s) /\ SubSeq(s, 1, Len(t)) = t

Positions == 1..Len(history)

\* position (1 = HEAD) of the commit with this full hash, 0 when there is none
PosOf(fullHash) ==
  IF \E p \in Positions : history[p].fullHash = fullHash
  THEN CHOOSE p \in Positions : history[p].fullHash = fullHash
  ELSE 0

\* whether the commit at position p is contained in a remote-tracking branch
Reachable(p) == p > Len(history) - nPushed

-----------------------------------------------------------------------------
(* GitService: the read side.  A listing is taken under an environment e    *)
(* that says which of its VCS queries fail: e.log (git log), e.up (the      *)
(* upstream lookup), e.q (the positions whose `git branch -r --contains`    *)
(* query fails in isCommitPushed) and e.r (the positions where it fails in  *)
(* getCommitRemotes).                                                       *)

\* (a failed query whose caught answer is also the right one is not told apart)
GitEnvs ==
  {e \in [log : BOOLEAN, up : BOOLEAN, q : SUBSET {p \in Positions : Reachable(p)},
          r : SUBSET {p \in Positions : Reachable(p)}] :
     /\ (e.up => hasUpstream)
     /\ (IF e.log THEN 1 ELSE 0) + (IF e.up THEN 1 ELSE 0)
          + Cardinality(e.q) + Cardinality(e.r) <= MaxFaults}

\* (main() and execute only display Commit.remotes: there a failing getCommitRemotes
\* is not told apart from one that answers)
ListEnvs == {e \in GitEnvs : e.r = {}}

NoFaults == [log |-> FALSE, up |-> FALSE, q |-> {}, r |-> {}]

\* getRemoteTrackingBranch: a failed lookup is caught and answered null
GetRemoteTrackingBranch(e) == IF e.up THEN FALSE ELSE hasUpstream

\* a failed query is caught and answered false
IsCommitPushed(p, e) == IF p \in e.q THEN FALSE ELSE Reachable(p)

\* the remote-tracking branches that contain the commit; a failed query is caught and
\* answered []
GetCommitRemotes(p, e) ==
  IF p \in e.r THEN {} ELSE IF Reachable(p) THEN {"origin/main"} ELSE {}

ParseCommit(p, e) ==
  [hash       |-> SubSeq(history[p].fullHash, 1, ShortLen),
   fullHash   |-> history[p].fullHash,
   authorDate |-> history[p].authorDate,
   isPushed   |-> IsCommitPushed(p, e),
   remotes    |-> IF IsCommitPushed(p, e) THEN GetCommitRemotes(p, e) ELSE {}]

\* git log -n<limit>, and git log <upstream>..HEAD -n<limit>: positions, newest first
GitLog(limit) == [i \in 1..Min(limit, Len(history)) |-> i]
GitLogNotInUpstream(limit) == [i \in 1..Min(limit, Len(history) - nPushed) |-> i]

GetAllCommits(limit, e) ==
  LET log == GitLog(limit)
  IN  [i \in DOMAIN log |-> ParseCommit(log[i], e)]

\* (variant: the entries of the log are all kept)
KeepsPushed(c) == TRUE

\* if (!commit.isPushed) commits.push(commit)
NotPushed(c) == ~c.isPushed

GetUnpushedCommits(limit, e) ==
  LET log == IF GetRemoteTrackingBranch(e) THEN GitLogNotInUpstream(limit) ELSE GitLog(limit)
  IN  SelectSeq([i \in DOMAIN log |-> ParseCommit(log[i], e)], NotPushed)

\* the listing of a scope: all commits with --allow-pushed, unpushed ones otherwise
Listing(allowPushed, limit, e) ==
  IF allowPushed THEN GetAllCommits(limit, e) ELSE GetUnpushedCommits(limit, e)

\* the VCS commands that fail while the listing of a scope is taken under e
FailedQueries(allowPushed, limit, e) ==
  LET log == IF ~allowPushed /\ GetRemoteTrackingBranch(e)
             THEN GitLogNotInUpstream(limit) ELSE GitLog(limit)
  IN  (IF ~allowPushed /\ e.up THEN {"upstream"} ELSE {})
        \cup (IF e.log THEN {"log"}
              ELSE (IF \E i \in DOMAIN log : log[i] \in e.q THEN {"contains"} ELSE {})
                     \cup (IF \E i \in DOMAIN log : log[i] \in e.r /\ IsCommitPushed(log[i], e)
                           THEN {"remotes"} ELSE {}))

-----------------------------------------------------------------------------
(* DateValidator *)

\* a validation result; `bound` is the boundary value the message includes
Valid == [isValid |-> TRUE, error |-> "none", bound |-> NoDate]
Invalid(key, b) == [isValid |-> FALSE, error |-> key, bound |-> b]

\* (variant: the two neighbours are taken for each other)
GetValidDateRangeSwapped(prevCommitDate, nextCommitDate, t) ==
  [min |-> nextCommitDate,
   max |-> IF prevCommitDate # NoDate /\ prevCommitDate < t THEN prevCommitDate ELSE t]

\* (variant: the next commit's date is taken as the upper bound whenever there is one)
GetValidDateRangeIgnoringNow(prevCommitDate, nextCommitDate, t) ==
  [min |-> prevCommitDate,
   max |-> IF nextCommitDate # NoDate THEN nextCommitDate ELSE t]

GetValidDateRange(prevCommitDate, nextCommitDate, t) ==
  [min |-> prevCommitDate,
   max |-> IF nextCommitDate # NoDate /\ nextCommitDate < t THEN nextCommitDate ELSE t]

\* (variant: every date string is taken as well-formed)
ValidateISOFormatAny(dateString) == TRUE

\* (variant: the neighbours are compared before the clock)
ValidateDateNeighboursFirst(newDate, prevCommitDate, nextCommitDate, t) ==
  IF prevCommitDate # NoDate /\ newDate < prevCommitDate
  THEN Invalid("beforePrevious", prevCommitDate)
  ELSE IF nextCommitDate # NoDate /\ newDate > nextCommitDate
  THEN Invalid("afterNext", nextCommitDate)
  ELSE IF newDate > t
  THEN Invalid("futureDate", NoDate)
  ELSE Valid

\* (variant: a date equal to a neighbour's is refused)
ValidateDateOpenInterval(newDate, prevCommitDate, nextCommitDate, t) ==
  IF newDate > t
  THEN Invalid("futureDate", NoDate)
  ELSE IF prevCommitDate # NoDate /\ newDate <= prevCommitDate
  THEN Invalid("beforePrevious", prevCommitDate)
  ELSE IF nextCommitDate # NoDate /\ newDate >= nextCommitDate
  THEN Invalid("afterNext", nextCommitDate)
  ELSE Valid

ValidateDate(newDate, prevCommitDate, nextCommitDate, t) ==
  IF newDate > t
  THEN Invalid("futureDate", NoDate)
  ELSE IF prevCommitDate # NoDate /\ newDate < prevCommitDate
  THEN Invalid("beforePrevious", prevCommitDate)
  ELSE IF nextCommitDate # NoDate /\ newDate > nextCommitDate
  THEN Invalid("afterNext", nextCommitDate)
  ELSE Valid

(* A date string is modelled by what date-fns makes of it: whether         *)
(* parseISO accepts it as written (fmt), which zone designator it ends     *)
(* with, whether parseISO accepts it with "Z" appended (utc), and the      *)
(* wall-clock reading it spells.  A string ending in "Z" reads like an      *)
(* offset of zero, which is what a string without designator is given.     *)
OffsetTicks == 1     \* a "+HH:MM" suffix puts the instant this far earlier
DateStrings ==
  {s \in [fmt : BOOLEAN, zone : {"none", "offset"}, utc : BOOLEAN, clock : 0..MaxTime] :
     /\ (s.zone # "none" => s.utc = s.fmt)
     /\ (~(s.fmt /\ s.utc) => s.clock = OffsetTicks)
     /\ (s.zone = "offset" => s.clock >= OffsetTicks)}

ValidateISOFormat(dateString) == dateString.fmt

\* a string without "Z" or "+HH:MM" is parsed with "Z" appended; null is NoDate
ParseDate(dateString) ==
  IF dateString.zone = "none"
  THEN IF dateString.utc THEN dateString.clock ELSE NoDate
  ELSE IF ~dateString.fmt THEN NoDate
  ELSE dateString.clock - OffsetTicks

\* date.toISOString().substring(0, 16): the date to the minute
MinuteOf(date) == date \div TicksPerMinute

-----------------------------------------------------------------------------
(* GitService.changeCommitDate and DateChanger: the write side.  A rewrite  *)
(* is made under an environment w: whether git filter-branch fails, whether *)
(* the cleanup of refs/original/ fails, whether the remote-tracking refs    *)
(* are rewritten with the branch, and how far the short hash of a new       *)
(* commit lies from the one of the commit it replaces (shift).              *)

NoWrite ==
  [rewriteFails |-> FALSE, cleanupFails |-> FALSE, remotesRewritten |-> TRUE, shift |-> 0]

\* the VCS commands that fail during a rewrite call
WriteFaults(w) == IF w.rewriteFails \/ w.cleanupFails THEN 1 ELSE 0

\* (choices that make no difference to the outcome are not told apart)
WriteEnvs(commitHash) ==
  {w \in [rewriteFails : BOOLEAN, cleanupFails : BOOLEAN, remotesRewritten : BOOLEAN,
          shift : 0..(NewShorts - 1)] :
     /\ (w.rewriteFails => w = [NoWrite EXCEPT !.rewriteFails = TRUE])
     /\ (~Reachable(PosOf(commitHash)) => w.remotesRewritten)}

Serials(hashes) == {h[3] : h \in hashes}

\* the serials no commit of the repository or of the held listing carries
UnusedSerials ==
  (1..((MaxCycles + 1) * NumCommits)) \ Serials({history[p].fullHash : p \in Positions}
                                   \cup {commits[i].fullHash : i \in DOMAIN commits})

NthSmallest(S, n) == CHOOSE x \in S : Cardinality({y \in S : y < x}) = n - 1

(* git filter-branch --env-filter: the commit whose id is commitHash gets   *)
(* both dates set; it and every commit after it get a new id.  A script     *)
(* that matches no commit, or that changes nothing, leaves the refs as      *)
(* they are.                                                                *)
FilterBranchChanges(commitHash, newDate) ==
  LET pos == PosOf(commitHash)
  IN  /\ pos # 0
      /\ ~(history[pos].authorDate = newDate /\ history[pos].committerDate = newDate)

FilterBranch(commitHash, newDate, w) ==
  LET pos == PosOf(commitHash)
  IN  IF ~FilterBranchChanges(commitHash, newDate)
      THEN history
      ELSE [p \in Positions |->
              IF p > pos THEN history[p]
              ELSE [fullHash      |-> <<(history[p].fullHash[1] + w.shift) % NumShorts, 0,
                                      NthSmallest(UnusedSerials, p)>>,
                    authorDate    |-> IF p = pos THEN newDate ELSE history[p].authorDate,
                    committerDate |-> IF p = pos THEN newDate ELSE history[p].committerDate,
                    content       |-> history[p].content]]

\* (variant: refs/original/ is left as filter-branch leaves it)
GitChangeCommitDateNoCleanup(commitHash, newDate, w) ==
  IF w.rewriteFails
  THEN [threw |-> TRUE, rewrites |-> 1, cleanups |-> 0,
        history |-> history, nPushed |-> nPushed, backupRefs |-> backupRefs]
  ELSE LET pos == PosOf(commitHash)
           changes == FilterBranchChanges(commitHash, newDate)
       IN  [threw |-> FALSE, rewrites |-> 1, cleanups |-> 0,
            history |-> FilterBranch(commitHash, newDate, w),
            nPushed |-> IF changes /\ ~w.remotesRewritten
                        THEN Min(nPushed, Len(history) - pos) ELSE nPushed,
            backupRefs |-> (backupRefs \/ changes)]

(* GitService.changeCommitDate: what the call leaves behind.  threw: the    *)
(* call rejected; rewrites / cleanups: the filter-branch calls and the      *)
(* for-each-ref cleanup attempts made.                                      *)
GitChangeCommitDate(commitHash, newDate, w) ==
  IF w.rewriteFails
  THEN [threw |-> TRUE, rewrites |-> 1, cleanups |-> 0,
        history |-> history, nPushed |-> nPushed, backupRefs |-> backupRefs]
  ELSE LET pos == PosOf(commitHash)
           changes == FilterBranchChanges(commitHash, newDate)
       IN  [threw |-> FALSE, rewrites |-> 1, cleanups |-> 1,
            history |-> FilterBranch(commitHash, newDate, w),
            nPushed |-> IF changes /\ ~w.remotesRewritten
                        THEN Min(nPushed, Len(history) - pos) ELSE nPushed,
            backupRefs |-> IF w.cleanupFails THEN (backupRefs \/ changes) ELSE FALSE]

(* GitService.changeCommitDate, the variant that goes through git rebase:   *)
(* `rebase <parent> --exec "GIT_COMMITTER_DATE=d git commit --amend         *)
(* --no-edit --date=d"`, with --root when the commit has no parent.  The     *)
(* exec command runs after every commit the rebase replays, so the commit   *)
(* and each commit after it is amended to the new date; the remote-tracking *)
(* refs stay where they are and no refs/original/ is involved.              *)
RebaseExec(commitHash, newDate) ==
  LET pos == PosOf(commitHash)
  IN  [p \in Positions |->
         IF p > pos THEN history[p]
         ELSE [fullHash      |-> <<history[p].fullHash[1], 0, NthSmallest(UnusedSerials, p)>>,
               authorDate    |-> newDate,
               committerDate |-> newDate,
               content       |-> history[p].content]]

GitChangeCommitDateRebase(commitHash, newDate, w) ==
  IF w.rewriteFails
  THEN [threw |-> TRUE, rewrites |-> 1, cleanups |-> 0,
        history |-> history, nPushed |-> nPushed, backupRefs |-> backupRefs]
  ELSE [threw |-> FALSE, rewrites |-> 1, cleanups |-> 0,
        history |-> RebaseExec(commitHash, newDate),
        nPushed |-> Min(nPushed, Len(history) - PosOf(commitHash)),
        backupRefs |-> backupRefs]

NoCall ==
  [threw |-> FALSE, rewrites |-> 0, cleanups |-> 0,
   history |-> history, nPushed |-> nPushed, backupRefs |-> backupRefs]

\* DateChanger.changeCommitDate: a git failure is rethrown with a prefix
ChangeCommitDate(commit, newDate, w) ==
  LET r == GitChangeCommitDate(commit.fullHash, newDate, w)
  IN  [call |-> r, error |-> IF r.threw THEN "gitError" ELSE "none"]

\* (variant: the rewrite is called without the validation)
ValidateAndChangeUnchecked(commit, newDate, prevCommitDate, nextCommitDate, t, w) ==
  ChangeCommitDate(commit, newDate, w)

\* (variant: the neighbours are passed to validateDate in the other order)
ValidateAndChangeSwapped(commit, newDate, prevCommitDate, nextCommitDate, t, w) ==
  LET validation == ValidateDate(newDate, nextCommitDate, prevCommitDate, t)
  IN  IF ~validation.isValid
      THEN [call |-> NoCall, error |-> validation.error]
      ELSE ChangeCommitDate(commit, newDate, w)

\* DateChanger.validateAndChange at clock reading t
ValidateAndChange(commit, newDate, prevCommitDate, nextCommitDate, t, w) ==
  LET validation == ValidateDate(newDate, prevCommitDate, nextCommitDate, t)
  IN  IF ~validation.isValid
      THEN [call |-> NoCall, error |-> validation.error]
      ELSE ChangeCommitDate(commit, newDate, w)

-----------------------------------------------------------------------------
(* CliRunner *)

NullCommit ==
  [hash |-> <<>>, fullHash |-> <<>>, authorDate |-> NoDate, isPushed |-> FALSE, remotes |-> {}]

Matches(c, token) == c.hash = token \/ c.fullHash = token \/ IsPrefix(token, c.fullHash)

\* (variant: the last match of the listing)
FindCommitByHashLast(list, token) ==
  IF \E i \in DOMAIN list : Matches(list[i], token)
  THEN list[CHOOSE i \in DOMAIN list :
              Matches(list[i], token) /\ \A j \in (i + 1)..Len(list) : ~Matches(list[j], token)]
  ELSE NullCommit

\* commits.find(...) || null: the first match of the listing
FindCommitByHash(list, token) ==
  IF \E i \in DOMAIN list : Matches(list[i], token)
  THEN list[CHOOSE i \in DOMAIN list :
              Matches(list[i], token) /\ \A j \in 1..(i - 1) : ~Matches(list[j], token)]
  ELSE NullCommit

\* commits.findIndex((c) => c.hash === hash), counted from 1; 0 when there is none
FindIndex(list, c) ==
  IF \E i \in DOMAIN list : list[i].hash = c.hash
  THEN CHOOSE i \in DOMAIN list :
         list[i].hash = c.hash /\ \A j \in 1..(i - 1) : list[j].hash # c.hash
  ELSE 0

\* where the commit with this full hash stands in a listing, counted from 1; 0 when it
\* is not listed
IndexOfFullHash(list, fullHash) ==
  IF \E i \in DOMAIN list : list[i].fullHash = fullHash
  THEN CHOOSE i \in DOMAIN list : list[i].fullHash = fullHash
  ELSE 0

\* the neighbours of index i: the older commit is "previous", the newer one "next"
PrevDate(list, i) == IF i < Len(list) THEN list[i + 1].authorDate ELSE NoDate
NextDate(list, i) == IF i > 1 THEN list[i - 1].authorDate ELSE NoDate

NoRun ==
  [kind |-> "none", errorCode |-> "none", success |-> FALSE, isPushed |-> FALSE,
   target |-> 0, reachable |-> FALSE, index |-> 0, targetIndex |-> 0,
   oldDate |-> NoDate, newDate |-> NoDate, prevDate |-> NoDate, nextDate |-> NoDate,
   min |-> NoDate, max |-> NoDate, bound |-> NoDate, ordered |-> FALSE,
   confirms |-> {}, declined |-> "none", faulted |-> FALSE, failed |-> {}, spent |-> 0,
   rewrites |-> 0, cleanups |-> 0, rewriteOk |-> FALSE, applyError |-> "none",
   violates |-> {},
   structured |-> FALSE, exit |-> "none",
   earlierRewrites |-> 0, earlierDeclined |-> "none", earlierFailed |-> FALSE,
   env |-> [log |-> FALSE, up |-> FALSE, q |-> {}, r |-> {}]]

\* every adjacent pair of a listing satisfies c[i].timestamp >= c[i+1].timestamp
Ordered(list) ==
  \A i \in 1..(Len(list) - 1) : list[i].authorDate >= list[i + 1].authorDate

\* a commit reported pushed is changed only with --no-confirm
RequiresConfirmNever(commit, noConfirm) == FALSE
RequiresConfirm(commit, noConfirm) == commit.isPushed /\ ~noConfirm

\* execute() always returns a structured result
CliRun == [NoRun EXCEPT !.kind = "cli", !.structured = TRUE]

\* return { success: false, errorCode } before the apply step
FailureAfterRewrite(r, code) ==
  [run |-> [r EXCEPT !.errorCode = code, !.rewrites = 1],
   call |-> [NoCall EXCEPT !.rewrites = 1, !.backupRefs = TRUE]]
Failure(r, code) == [run |-> [r EXCEPT !.errorCode = code], call |-> NoCall]

(* The checks of execute that an input does not pass, each taken by itself: *)
(* "format" (the date string is malformed), "lookup" (no listed commit      *)
(* matches the hash), "gate" (the commit found is reported pushed and there *)
(* is no --no-confirm), "parse" (the date string parses to null), "window"  *)
(* (the parsed date is outside the window of the commit found).             *)
Violations(o, date, e1, e2, t1) ==
  LET found == FindCommitByHash(Listing(o.allowPushed, CliLimit, e1), o.hash)
      newDate == ParseDate(date)
      allCommits == Listing(o.allowPushed, CliLimit, e2)
      commitIndex == FindIndex(allCommits, found)
  IN  (IF date.fmt THEN {} ELSE {"format"})
        \cup (IF newDate = NoDate THEN {"parse"} ELSE {})
        \cup (IF e1.log THEN {}
              ELSE IF found = NullCommit THEN {"lookup"}
              ELSE (IF found.isPushed /\ ~o.noConfirm THEN {"gate"} ELSE {})
                     \cup (IF newDate # NoDate /\ ~e2.log
                               /\ ~ValidateDate(newDate, PrevDate(allCommits, commitIndex),
                                                NextDate(allCommits, commitIndex), t1).isValid
                           THEN {"window"} ELSE {}))

(* CliRunner.execute.  e1 and e2 are the environments of its two listings,  *)
(* t1 and t2 the clock readings of its validateDate call and of the one in  *)
(* validateAndChange, w the environment of the rewrite.                     *)
Execute(o, date, e1, e2, t1, t2, w) ==
  LET r0 == [CliRun EXCEPT !.faulted = (e1 # NoFaults),
                           !.failed = FailedQueries(o.allowPushed, CliLimit, e1),
                           !.ordered = Ordered(Listing(o.allowPushed, CliLimit, NoFaults))]
      found == FindCommitByHash(Listing(o.allowPushed, CliLimit, e1), o.hash)
      newDate == ParseDate(date)
      allCommits == Listing(o.allowPushed, CliLimit, e2)
      commitIndex == FindIndex(allCommits, found)
      prevDate == PrevDate(allCommits, commitIndex)
      nextDate == NextDate(allCommits, commitIndex)
      r1 == [r0 EXCEPT !.target = PosOf(found.fullHash),
                       !.reachable = Reachable(PosOf(found.fullHash)),
                       !.isPushed = found.isPushed,
                       !.oldDate = found.authorDate]
      r2 == [r1 EXCEPT !.newDate = newDate,
                       !.faulted = (e1 # NoFaults \/ e2 # NoFaults),
                       !.failed = @ \cup FailedQueries(o.allowPushed, CliLimit, e2)]
      r3 == [r2 EXCEPT !.index = commitIndex, !.prevDate = prevDate, !.nextDate = nextDate,
                       !.targetIndex = IndexOfFullHash(allCommits, found.fullHash)]
      applied == ValidateAndChange(found, newDate, prevDate, nextDate, t2, w)
      r4 == [r3 EXCEPT !.rewrites = applied.call.rewrites,
                       !.cleanups = applied.call.cleanups,
                       !.rewriteOk = (applied.call.rewrites = 1 /\ ~applied.call.threw),
                       !.applyError = applied.error,
                       !.faulted = (r2.faulted \/ w.rewriteFails \/ w.cleanupFails),
                       !.failed = @ \cup (IF w.rewriteFails THEN {"rewrite"} ELSE {})
                                    \cup (IF w.cleanupFails THEN {"cleanup"} ELSE {})]
      result ==
        IF ~ValidateISOFormat(date) THEN Failure(CliRun, "INVALID_DATE_FORMAT")
        ELSE IF e1.log THEN Failure(r0, "EXECUTION_ERROR")
        ELSE IF found = NullCommit THEN Failure(r0, "COMMIT_NOT_FOUND")
        ELSE IF RequiresConfirm(found, o.noConfirm) THEN Failure(r1, "PUSHED_REQUIRES_CONFIRM")
        ELSE IF newDate = NoDate THEN Failure(r1, "DATE_PARSING_ERROR")
        ELSE IF e2.log THEN Failure(r2, "EXECUTION_ERROR")
        ELSE IF ~ValidateDate(newDate, prevDate, nextDate, t1).isValid
             THEN Failure(r3, "DATE_OUT_OF_RANGE")
        ELSE IF applied.error # "none"
             THEN [run |-> [r4 EXCEPT !.errorCode = "EXECUTION_ERROR"], call |-> applied.call]
        ELSE [run |-> [r4 EXCEPT !.success = TRUE], call |-> applied.call]
  IN  [result EXCEPT !.run.violates = Violations(o, date, e1, e2, t1)]

\* how far execute gets with these inputs: 1 the lookup, 2 the second listing, 3 the apply step
ExecuteReaches(o, date, e1, e2, t1) ==
  LET found == FindCommitByHash(Listing(o.allowPushed, CliLimit, e1), o.hash)
      allCommits == Listing(o.allowPushed, CliLimit, e2)
      commitIndex == FindIndex(allCommits, found)
  IN  IF ~ValidateISOFormat(date) \/ e1.log \/ found = NullCommit
         \/ RequiresConfirm(found, o.noConfirm) \/ ParseDate(date) = NoDate
      THEN 1
      ELSE IF e2.log \/ ~ValidateDate(ParseDate(date), PrevDate(allCommits, commitIndex),
                                      NextDate(allCommits, commitIndex), t1).isValid
      THEN 2
      ELSE 3

-----------------------------------------------------------------------------
(* main(): the interactive loop *)

NoOpts ==
  [mode |-> "none", hash |-> <<>>, allowPushed |-> FALSE, noConfirm |-> FALSE,
   count |-> 0, modeConfirmed |-> FALSE, json |-> FALSE]

\* what the user can leave in the date prompt: its validate callback refuses anything else
AcceptedAnswers(validRange, t) ==
  {s \in DateStrings :
     /\ ValidateISOFormat(s)
     /\ ParseDate(s) # NoDate
     /\ ValidateDate(ParseDate(s), validRange.min, validRange.max, t).isValid}

\* UIPrompts.promptNewDate: a blank answer keeps the current date
PromptNewDate(currentDate, input, answer) ==
  IF input = "blank" THEN currentDate ELSE ParseDate(answer)

\* error.message === t("errors.userCancelled"), for the error selectCommit throws when
\* the per-commit confirmation is declined: the translated message is the one thrown
CancelMessageMatches == TRUE

\* the inner catch: showError, shouldContinue = false, then showGoodbye and a normal end
Stop(r, message) ==
  [run |-> [r EXCEPT !.errorCode = message, !.exit = "0"], call |-> NoCall, pc |-> "exit"]

\* (variant: after an error of the apply step the session asks whether to continue)
CaughtAsksAgain(r, call) ==
  [run |-> [r EXCEPT !.errorCode = "error"], call |-> call, pc |-> "askCancelled"]

\* the inner catch for what validateAndChange throws: the message is never the
\* cancellation one, so showError, shouldContinue = false and the loop is left
Caught(r, call) ==
  [run |-> [r EXCEPT !.errorCode = "error", !.exit = "0"], call |-> call, pc |-> "exit"]

\* (variant: a declined confirmation is shown as an error and ends the session)
DeclinedEndsSession(r, which) == Stop([r EXCEPT !.declined = which], "error")

\* a declined confirmation ("commit", "final" or "apply"): the pass ends without a
\* rewrite and the session goes on to ask whether to continue
Declined(r, which) ==
  [run |-> [r EXCEPT !.declined = which], call |-> NoCall,
   pc |-> IF which = "commit" THEN "askCancelled" ELSE "ask"]

(* One pass of the loop body up to its "ask to continue" step: the user     *)
(* picks list entry i, answers the per-commit confirmation (asked for a     *)
(* commit reported pushed) with `pushedYes`, leaves `answer` in the date    *)
(* prompt (input says whether it was typed, left blank or cancelled) and    *)
(* answers the last confirmation with `applyYes`: the "final" one that      *)
(* wants a typed "yes" for a commit reported pushed, the plain "apply" one  *)
(* otherwise.  t is the clock reading of validateAndChange, w the           *)
(* environment of the rewrite.                                              *)
LoopBody(i, pushedYes, input, answer, applyYes, t, w) ==
  LET selectedCommit == commits[i]
      commitIndex == FindIndex(commits, selectedCommit)
      prevDate == PrevDate(commits, commitIndex)
      nextDate == NextDate(commits, commitIndex)
      newDate == PromptNewDate(selectedCommit.authorDate, input, answer)
      r1 == [NoRun EXCEPT !.kind = "interactive",
                          !.faulted = run.faulted,
                          !.failed = run.failed,
                          !.spent = run.spent,
                          !.earlierRewrites = run.earlierRewrites,
                          !.earlierDeclined = run.earlierDeclined,
                          !.earlierFailed = run.earlierFailed,
                          !.target = PosOf(selectedCommit.fullHash),
                          !.reachable = Reachable(PosOf(selectedCommit.fullHash)),
                          !.isPushed = selectedCommit.isPushed,
                          !.oldDate = selectedCommit.authorDate,
                          !.index = commitIndex,
                          !.targetIndex = IndexOfFullHash(commits, selectedCommit.fullHash),
                          !.prevDate = prevDate,
                          !.nextDate = nextDate,
                          !.ordered = Ordered(Listing(opts.allowPushed, opts.count, NoFaults)),
                          !.confirms = (IF opts.modeConfirmed THEN {"mode"} ELSE {})
                                       \cup (IF selectedCommit.isPushed /\ pushedYes
                                             THEN {"commit"} ELSE {})]
      r2 == [r1 EXCEPT !.newDate = newDate]
      r3 == [r2 EXCEPT !.confirms = @ \cup {IF selectedCommit.isPushed THEN "final" ELSE "apply"}]
      applied == ValidateAndChange(selectedCommit, newDate, prevDate, nextDate, t, w)
      r4 == [r3 EXCEPT !.rewrites = applied.call.rewrites,
                       !.cleanups = applied.call.cleanups,
                       !.rewriteOk = (applied.call.rewrites = 1 /\ ~applied.call.threw),
                       !.applyError = applied.error,
                       !.faulted = (r1.faulted \/ w.rewriteFails \/ w.cleanupFails),
                       !.spent = r1.spent + WriteFaults(w),
                       !.failed = @ \cup (IF w.rewriteFails THEN {"rewrite"} ELSE {})
                                    \cup (IF w.cleanupFails THEN {"cleanup"} ELSE {})]
  IN  IF selectedCommit.isPushed /\ ~pushedYes
      THEN IF CancelMessageMatches
           THEN Declined(r1, "commit")
           ELSE Stop([r1 EXCEPT !.declined = "commit"], "error")
      ELSE IF input = "cancelled" THEN Stop(r1, "error")
      ELSE IF MinuteOf(newDate) = MinuteOf(selectedCommit.authorDate)
           THEN [run |-> [r2 EXCEPT !.declined = "unchanged"], call |-> NoCall, pc |-> "ask"]
      ELSE IF ~applyYes
           THEN Declined(r2, IF selectedCommit.isPushed THEN "final" ELSE "apply")
      ELSE IF applied.error # "none"
           THEN Caught(r4, applied.call)
      ELSE [run |-> [r4 EXCEPT !.success = TRUE], call |-> applied.call, pc |-> "ask"]

\* whether the loop body gets to its apply step with these answers
LoopBodyApplies(i, pushedYes, input, answer, applyYes) ==
  /\ ~(commits[i].isPushed /\ ~pushedYes)
  /\ input # "cancelled"
  /\ MinuteOf(PromptNewDate(commits[i].authorDate, input, answer)) # MinuteOf(commits[i].authorDate)
  /\ applyYes

-----------------------------------------------------------------------------
(* The state machine *)

Faults(e) ==
  (IF e.log THEN 1 ELSE 0) + (IF e.up THEN 1 ELSE 0) + Cardinality(e.q) + Cardinality(e.r)

\* short hashes up to renaming: a commit takes a short hash seen before or the next new one
CanonicalShorts ==
  {sh \in [1..NumCommits -> 0..(NumShorts - 1)] :
     /\ sh[1] = 0
     /\ \A p \in 2..NumCommits : \E q \in 1..(p - 1) : sh[p] <= sh[q] + 1}

\* newest first, every commit authored after its parent
OrderedDates ==
  {d \in [1..NumCommits -> 0..(MaxTime - 1)] : \A p \in 1..(NumCommits - 1) : d[p] > d[p + 1]}

Tokens ==
  {SubSeq(history[p].fullHash, 1, ShortLen) : p \in Positions}
    \cup {history[p].fullHash : p \in Positions}
    \cup {<<NumShorts>>}

Later == {t \in {now, now + 1} : t <= MaxTime}

\* the repository main() or a service is started in
InitRepository ==
  /\ \E sh \in CanonicalShorts, d \in OrderedDates :
       history = [p \in 1..NumCommits |->
                    [fullHash |-> <<sh[p], 0, p>>, authorDate |-> d[p], committerDate |-> d[p],
                     content |-> p]]
  /\ nPushed \in 0..NumCommits
  /\ hasUpstream \in BOOLEAN
  /\ (hasUpstream => nPushed >= 1)
  /\ workTree \in {"clean", "dirty", "notRepo"}
  /\ now = MaxTime - 1
  /\ pc = "start"
  /\ opts = NoOpts
  /\ commits = <<>>
  /\ run = NoRun
  /\ cycles = 0

Init ==
  /\ InitRepository
  /\ backupRefs = FALSE

Apply(call) ==
  /\ history' = call.history
  /\ nPushed' = call.nPushed
  /\ backupRefs' = call.backupRefs

(* main() up to its dispatch: the code it stops with, "none" when it goes   *)
(* on.  flags says how many of --hash and --date are given: "both" is CLI  *)
(* mode, "none" the interactive one.  statusFails: `git status` rejects.   *)
PreflightNoChecks(tree, flags, statusFails) ==
  IF flags = "one" THEN "MISSING_REQUIRED_OPTIONS" ELSE "none"

PreflightOtherCode(tree, flags, statusFails) ==
  IF tree = "notRepo" THEN "NOT_GIT_REPO"
  ELSE IF statusFails THEN "criticalError"
  ELSE IF tree = "dirty" THEN "DIRTY_WORKING_TREE"
  ELSE IF flags = "one" THEN "MISSING_REQUIRED_OPTIONS"
  ELSE "none"

Preflight(tree, flags, statusFails) ==
  IF tree = "notRepo" THEN "NOT_GIT_REPO"
  ELSE IF statusFails THEN "criticalError"
  ELSE IF tree = "dirty" THEN "UNCOMMITTED_CHANGES"
  ELSE IF flags = "one" THEN "MISSING_REQUIRED_OPTIONS"
  ELSE "none"

ModeOf(flags) == IF flags = "both" THEN "cli" ELSE IF flags = "one" THEN "partial" ELSE "interactive"

\* process.exit(result.success ? 0 : 1)
ExitStatusAlwaysZero(success) == "0"
ExitStatus(success) == IF success THEN "0" ELSE "1"

\* main() stops before its dispatch: not a repository, `git status` failing, uncommitted
\* changes, or only one of --hash and --date given; with --json the last two print a
\* structured result
MainRejects ==
  /\ pc = "start"
  /\ \E flags \in {"none", "one", "both"}, json \in BOOLEAN, statusFails \in BOOLEAN :
       LET code == Preflight(workTree, flags, statusFails)
       IN  /\ code # "none"
           /\ (statusFails => code = "criticalError")
           /\ run' = [NoRun EXCEPT !.kind = "precondition", !.errorCode = code,
                                   !.structured = (json /\ code \notin {"NOT_GIT_REPO",
                                                                        "criticalError"}),
                                   !.failed = IF statusFails THEN {"status"} ELSE {},
                                   !.exit = "1"]
           /\ opts' = [NoOpts EXCEPT !.mode = ModeOf(flags), !.json = json]
  /\ pc' = "exit"
  /\ UNCHANGED <<history, nPushed, hasUpstream, workTree, backupRefs, now, commits, cycles>>

\* main() in CLI mode: both --hash and --date given
RunCli ==
  /\ pc = "start"
  /\ Preflight(workTree, "both", FALSE) = "none"
  /\ \E hash \in Tokens, allowPushed \in BOOLEAN, noConfirm \in BOOLEAN, json \in BOOLEAN,
        date \in DateStrings, e1 \in ListEnvs :
       LET o == [NoOpts EXCEPT !.mode = "cli", !.hash = hash, !.allowPushed = allowPushed,
                               !.noConfirm = noConfirm, !.count = CliLimit, !.json = json]
           first == ExecuteReaches(o, date, e1, NoFaults, now)
       IN  \E e2 \in (IF first = 1 THEN {NoFaults}
                      ELSE {e \in ListEnvs : Faults(e1) + Faults(e) <= MaxFaults}) :
             LET reach == IF first = 1 THEN 1 ELSE ExecuteReaches(o, date, e1, e2, now)
                 found == FindCommitByHash(Listing(allowPushed, CliLimit, e1), hash)
             IN  \E t \in (IF reach = 3 THEN Later ELSE {now}) :
                   \E w \in (IF reach = 3 THEN WriteEnvs(found.fullHash) ELSE {NoWrite}) :
                     \E result \in {Execute(o, date, e1, e2, now, t, w)} :
                         /\ Apply(result.call)
                         /\ run' = [result.run EXCEPT !.exit = ExitStatus(result.run.success)]
                         /\ opts' = o
                         /\ now' = t
  /\ pc' = "exit"
  /\ UNCHANGED <<hasUpstream, workTree, commits, cycles>>

\* main() in interactive mode, up to the loop
StartInteractive ==
  /\ pc = "start"
  /\ Preflight(workTree, "none", FALSE) = "none"
  /\ \E allowPushed \in BOOLEAN, count \in (NumCommits - 1)..NumCommits, modeYes \in BOOLEAN, e \in ListEnvs :
       LET o == [NoOpts EXCEPT !.mode = "interactive", !.allowPushed = allowPushed,
                               !.count = count, !.modeConfirmed = (allowPushed /\ modeYes)]
           listed == Listing(allowPushed, count, e)
           r == [NoRun EXCEPT !.kind = "interactive", !.faulted = (e # NoFaults),
                              !.spent = Faults(e),
                              !.failed = FailedQueries(allowPushed, count, e)]
       IN  /\ opts' = o
           /\ IF allowPushed /\ ~modeYes
              THEN /\ run' = [NoRun EXCEPT !.kind = "interactive", !.declined = "mode",
                                           !.exit = "0"]
                   /\ pc' = "exit"
                   /\ commits' = <<>>
              ELSE IF e.log
              THEN /\ run' = [r EXCEPT !.errorCode = "criticalError", !.exit = "1"]
                   /\ pc' = "exit"
                   /\ commits' = <<>>
              ELSE /\ commits' = listed
                   /\ IF ~allowPushed /\ listed = <<>>
                      THEN run' = [r EXCEPT !.exit = "0"] /\ pc' = "exit"
                      ELSE run' = r /\ pc' = "loop"
  /\ UNCHANGED <<history, nPushed, hasUpstream, workTree, backupRefs, now, cycles>>

\* one pass of the loop body
Cycle ==
  /\ pc = "loop"
  /\ cycles < MaxCycles
  /\ cycles' = cycles + 1
  /\ IF commits = <<>>
     THEN /\ run' = [run EXCEPT !.errorCode = "error", !.exit = "0"]
          /\ pc' = "exit"
          /\ UNCHANGED <<history, nPushed, backupRefs, now>>
     ELSE \E i \in DOMAIN commits, input \in {"typed", "blank", "cancelled"} :
          \E pushedYes \in (IF commits[i].isPushed THEN BOOLEAN ELSE {TRUE}),
             applyYes \in (IF input = "typed" THEN BOOLEAN ELSE {TRUE}) :
            LET commitIndex == FindIndex(commits, commits[i])
                validRange == GetValidDateRange(PrevDate(commits, commitIndex),
                                                NextDate(commits, commitIndex), now)
            IN  \E answer \in (IF input = "typed" THEN AcceptedAnswers(validRange, now)
                               ELSE {CHOOSE s \in DateStrings : TRUE}) :
                  LET applies == LoopBodyApplies(i, pushedYes, input, answer, applyYes)
                  IN  \E t \in (IF applies THEN Later ELSE {now}) :
                        \E w \in (IF applies
                                  THEN {v \in WriteEnvs(commits[i].fullHash) :
                                          run.spent + WriteFaults(v) <= MaxFaults}
                                  ELSE {NoWrite}) :
                          \E result \in {LoopBody(i, pushedYes, input, answer, applyYes, t, w)} :
                              /\ Apply(result.call)
                              /\ run' = result.run
                              /\ pc' = result.pc
                              /\ now' = t
  /\ UNCHANGED <<hasUpstream, workTree, opts, commits>>

\* (variant: the loop keeps the listing it has)
RefreshKeepsListing(e) == commits

\* commits = await gitService.getAllCommits(count) / getUnpushedCommits(count)
Refresh(e) == Listing(opts.allowPushed, opts.count, e)

\* the record of the next pass: what it carries over from the passes before it
NextPass ==
  [NoRun EXCEPT !.kind = "interactive",
                !.earlierRewrites = run.earlierRewrites + run.rewrites,
                !.spent = run.spent,
                !.earlierFailed = (run.earlierFailed \/ run.errorCode # "none"
                                   \/ (run.rewrites = 1 /\ ~run.rewriteOk)),
                !.earlierDeclined = IF run.declined \in {"commit", "final", "apply"}
                                    THEN run.declined ELSE run.earlierDeclined]

\* the answers to "change another commit?": a session has at most MaxCycles passes
Answers == {again \in BOOLEAN : again => cycles < MaxCycles}

\* "change another commit?" after a pass that was not cancelled: the listing is fetched anew
AskContinue ==
  /\ pc = "ask"
  /\ \E again \in Answers :
     \E e \in (IF again THEN {l \in ListEnvs : run.spent + Faults(l) <= MaxFaults}
                ELSE {NoFaults}) :
       IF ~again
       THEN /\ pc' = "exit"
            /\ run' = [run EXCEPT !.exit = "0"]
            /\ UNCHANGED commits
       ELSE IF e.log
       THEN /\ pc' = "exit"
            /\ run' = [NextPass EXCEPT !.errorCode = "error", !.faulted = TRUE,
                                       !.spent = @ + Faults(e),
                                       !.failed = FailedQueries(opts.allowPushed, opts.count, e),
                                       !.exit = "0"]
            /\ UNCHANGED commits
       ELSE /\ pc' = "loop"
            /\ commits' = Refresh(e)
            /\ run' = [NextPass EXCEPT !.faulted = (e # NoFaults),
                                       !.spent = @ + Faults(e),
                                       !.failed = FailedQueries(opts.allowPushed, opts.count, e)]
  /\ UNCHANGED <<history, nPushed, hasUpstream, workTree, backupRefs, now, opts, cycles>>

\* "change another commit?" after the user declined the per-commit confirmation
AskContinueCancelled ==
  /\ pc = "askCancelled"
  /\ \E again \in Answers :
       IF again
       THEN /\ pc' = "loop"
            /\ run' = [NextPass EXCEPT !.faulted = run.faulted, !.failed = run.failed]
       ELSE /\ pc' = "exit"
            /\ run' = [run EXCEPT !.exit = "0"]
  /\ UNCHANGED <<history, nPushed, hasUpstream, workTree, backupRefs, now, opts, commits, cycles>>

NextCli ==
  \/ MainRejects
  \/ RunCli

\* the invocations of CLI mode alone
SpecCli == Init /\ [][NextCli]_vars

Next ==
  \/ MainRejects
  \/ RunCli
  \/ StartInteractive
  \/ Cycle
  \/ AskContinue
  \/ AskContinueCancelled

Spec == Init /\ [][Next]_vars

-----------------------------------------------------------------------------
(* DateValidator and DateChanger.validateAndChange called directly, with    *)
(* arbitrary dates for the candidate and for the neighbours, at an          *)
(* arbitrary clock reading: the calls the unit tests make.                  *)

Dates == 0..MaxTime
MaybeDates == {NoDate} \cup Dates

InitValidator ==
  /\ \E d \in OrderedDates :
       history = [p \in 1..NumCommits |->
                    [fullHash |-> <<(p - 1) % NumShorts, 0, p>>,
                     authorDate |-> d[p], committerDate |-> d[p], content |-> p]]
  /\ nPushed = 0
  /\ hasUpstream = FALSE
  /\ workTree = "clean"
  /\ backupRefs = FALSE
  /\ now \in Dates
  /\ pc = "validator"
  /\ opts = NoOpts
  /\ commits = <<>>
  /\ run = NoRun
  /\ cycles = 0

CallValidateDate ==
  /\ pc = "validator"
  /\ \E newDate \in Dates, prevCommitDate \in MaybeDates, nextCommitDate \in MaybeDates :
       LET validation == ValidateDate(newDate, prevCommitDate, nextCommitDate, now)
       IN  run' = [NoRun EXCEPT !.kind = "validateDate",
                                !.newDate = newDate,
                                !.prevDate = prevCommitDate,
                                !.nextDate = nextCommitDate,
                                !.success = validation.isValid,
                                !.errorCode = validation.error,
                                !.bound = validation.bound]
  /\ pc' = "called"
  /\ UNCHANGED <<history, nPushed, hasUpstream, workTree, backupRefs, now, opts, commits, cycles>>

CallGetValidDateRange ==
  /\ pc = "validator"
  /\ \E prevCommitDate \in MaybeDates, nextCommitDate \in MaybeDates :
       LET validRange == GetValidDateRange(prevCommitDate, nextCommitDate, now)
       IN  run' = [NoRun EXCEPT !.kind = "getValidDateRange",
                                !.prevDate = prevCommitDate,
                                !.nextDate = nextCommitDate,
                                !.min = validRange.min,
                                !.max = validRange.max]
  /\ pc' = "called"
  /\ UNCHANGED <<history, nPushed, hasUpstream, workTree, backupRefs, now, opts, commits, cycles>>

CallValidateAndChange ==
  /\ pc = "validator"
  /\ \E p \in Positions, newDate \in Dates,
        prevCommitDate \in MaybeDates, nextCommitDate \in MaybeDates :
       LET commit == ParseCommit(p, NoFaults)
       IN  \E w \in WriteEnvs(commit.fullHash) :
             LET applied == ValidateAndChange(commit, newDate, prevCommitDate,
                                              nextCommitDate, now, w)
             IN  /\ Apply(applied.call)
                 /\ run' = [NoRun EXCEPT !.kind = "validateAndChange",
                                         !.target = p,
                                         !.oldDate = commit.authorDate,
                                         !.newDate = newDate,
                                         !.prevDate = prevCommitDate,
                                         !.nextDate = nextCommitDate,
                                         !.success = (applied.error = "none"),
                                         !.errorCode = applied.error,
                                         !.rewrites = applied.call.rewrites,
                                         !.cleanups = applied.call.cleanups,
                                         !.rewriteOk = (applied.call.rewrites = 1
                                                        /\ ~applied.call.threw)]
  /\ pc' = "called"
  /\ UNCHANGED <<hasUpstream, workTree, now, opts, commits, cycles>>

NextValidator ==
  \/ CallValidateDate
  \/ CallGetValidDateRange
  \/ CallValidateAndChange

SpecValidator == InitValidator /\ [][NextValidator]_vars

-----------------------------------------------------------------------------
(* GitService and CliRunner.findCommitByHash called directly: a listing of  *)
(* either scope with any limit, a lookup by any token, and a rewrite of any *)
(* commit to any date, by the filter-branch variant of changeCommitDate and *)
(* by the rebase variant.                                                   *)

Limits == 1..(NumCommits + 1)

\* what --hash may hold: a short id, a full id, a longer prefix of a full id, or
\* something that is none of these
LookupTokens ==
  Tokens \cup {SubSeq(history[p].fullHash, 1, ShortLen + 1) : p \in Positions}
         \cup {<<history[p].fullHash[1], 1>> : p \in Positions}

GitRun(kind, e, allowPushed, limit) ==
  [NoRun EXCEPT !.kind = kind, !.env = e, !.faulted = (e # NoFaults),
                !.failed = FailedQueries(allowPushed, limit, e),
                !.success = ~e.log,
                !.errorCode = IF e.log THEN "gitError" ELSE "none"]

CallGetUnpushedCommits ==
  /\ pc = "start"
  /\ \E limit \in Limits, e \in GitEnvs :
       /\ opts' = [NoOpts EXCEPT !.mode = "accessor", !.count = limit]
       /\ run' = GitRun("getUnpushedCommits", e, FALSE, limit)
       /\ commits' = IF e.log THEN <<>> ELSE GetUnpushedCommits(limit, e)
  /\ pc' = "called"
  /\ UNCHANGED <<history, nPushed, hasUpstream, workTree, backupRefs, now, cycles>>

CallGetAllCommits ==
  /\ pc = "start"
  /\ \E limit \in Limits, e \in GitEnvs :
       /\ opts' = [NoOpts EXCEPT !.mode = "accessor", !.count = limit, !.allowPushed = TRUE]
       /\ run' = GitRun("getAllCommits", e, TRUE, limit)
       /\ commits' = IF e.log THEN <<>> ELSE GetAllCommits(limit, e)
  /\ pc' = "called"
  /\ UNCHANGED <<history, nPushed, hasUpstream, workTree, backupRefs, now, cycles>>

CallFindCommitByHash ==
  /\ pc = "start"
  /\ \E token \in LookupTokens, allowPushed \in BOOLEAN, e \in ListEnvs :
       LET list == Listing(allowPushed, CliLimit, e)
           found == FindCommitByHash(list, token)
       IN  /\ opts' = [NoOpts EXCEPT !.mode = "accessor", !.count = CliLimit,
                                     !.allowPushed = allowPushed, !.hash = token]
           /\ commits' = IF e.log THEN <<>> ELSE list
           /\ run' = IF e.log
                     THEN GitRun("findCommitByHash", e, allowPushed, CliLimit)
                     ELSE [GitRun("findCommitByHash", e, allowPushed, CliLimit)
                             EXCEPT !.success = (found # NullCommit),
                                    !.target = PosOf(found.fullHash),
                                    !.isPushed = found.isPushed,
                                    !.oldDate = found.authorDate]
  /\ pc' = "called"
  /\ UNCHANGED <<history, nPushed, hasUpstream, workTree, backupRefs, now, cycles>>

RewriteRun(kind, p, newDate, call, w) ==
  [NoRun EXCEPT !.kind = kind, !.target = p, !.reachable = Reachable(p),
                !.faulted = (w.rewriteFails \/ w.cleanupFails),
                !.failed = (IF w.rewriteFails THEN {"rewrite"} ELSE {})
                             \cup (IF w.cleanupFails THEN {"cleanup"} ELSE {}),
                !.oldDate = history[p].authorDate, !.newDate = newDate,
                !.rewrites = call.rewrites, !.cleanups = call.cleanups,
                !.rewriteOk = ~call.threw, !.success = ~call.threw,
                !.errorCode = IF call.threw THEN "gitError" ELSE "none"]

CallChangeCommitDate ==
  /\ pc = "start"
  /\ \E p \in Positions, newDate \in 0..MaxTime :
       \E w \in WriteEnvs(history[p].fullHash) :
         LET call == GitChangeCommitDate(history[p].fullHash, newDate, w)
         IN  /\ Apply(call)
             /\ run' = RewriteRun("changeCommitDate", p, newDate, call, w)
  /\ pc' = "called"
  /\ UNCHANGED <<hasUpstream, workTree, now, opts, commits, cycles>>

CallChangeCommitDateRebase ==
  /\ pc = "start"
  /\ \E p \in Positions, newDate \in 0..MaxTime, rewriteFails \in BOOLEAN :
       LET w == [NoWrite EXCEPT !.rewriteFails = rewriteFails]
           call == GitChangeCommitDateRebase(history[p].fullHash, newDate, w)
       IN  /\ Apply(call)
           /\ run' = RewriteRun("changeCommitDateRebase", p, newDate, call, w)
  /\ pc' = "called"
  /\ UNCHANGED <<hasUpstream, workTree, now, opts, commits, cycles>>

NextGit ==
  \/ CallGetUnpushedCommits
  \/ CallGetAllCommits
  \/ CallFindCommitByHash
  \/ CallChangeCommitDate
  \/ CallChangeCommitDateRebase

\* refs/original/ may hold references an earlier rewrite left behind
InitGit ==
  /\ InitRepository
  /\ backupRefs \in BOOLEAN

SpecGit == InitGit /\ [][NextGit]_vars

-----------------------------------------------------------------------------
(* The properties *)

\* C1: a successful rewrite (of CLI mode or of an interactive cycle) made on a listing
\* whose adjacent pairs all satisfy c[i].timestamp >= c[i+1].timestamp leaves the
\* re-fetched listing of the same scope with all adjacent pairs still in that order
\* (stated for runs in which no VCS command failed).
C1_WindowMonotonicity ==
  (run.kind \in {"cli", "interactive"} /\ run.success /\ run.rewriteOk
     /\ ~run.faulted /\ run.ordered)
    => Ordered(Listing(opts.allowPushed, opts.count, NoFaults))

\* C2 as written: execute on a pushed commit with noConfirm = false answers
\* PUSHED_REQUIRES_CONFIRM and makes no rewrite call, whatever allowPushed and the
\* date are (stated for runs in which no VCS command failed).
C2_AnyOptionsAnyDate ==
  LET named == FindCommitByHash(GetAllCommits(CliLimit, NoFaults), opts.hash)
  IN  (run.kind = "cli" /\ ~opts.noConfirm /\ ~run.faulted
         /\ named # NullCommit /\ named.isPushed)
        => (run.errorCode = "PUSHED_REQUIRES_CONFIRM" /\ run.rewrites = 0)

\* C2: when the lookup of execute resolves to a commit reported pushed and noConfirm is
\* false, the result is PUSHED_REQUIRES_CONFIRM with no rewrite call; that result is
\* given only with allowPushed = true (a pushed commit is not in the unpushed listing)
\* and only for a date that passed the format check.
C2_PushedRequiresConfirm ==
  /\ (run.kind = "cli" /\ ~opts.noConfirm /\ run.isPushed)
       => (run.errorCode = "PUSHED_REQUIRES_CONFIRM" /\ ~run.success /\ run.rewrites = 0)
  /\ (run.kind = "cli" /\ run.errorCode = "PUSHED_REQUIRES_CONFIRM")
       => (opts.allowPushed /\ ~opts.noConfirm /\ run.isPushed /\ run.rewrites = 0)

C2_Witness ==
  /\ run.kind = "cli"
  /\ run.errorCode = "PUSHED_REQUIRES_CONFIRM"
  /\ run.reachable
  /\ run.rewrites = 0

\* C3: without --allow-pushed, in CLI mode and in the interactive session, no rewrite
\* call is made on a commit reachable from a remote-tracking branch.
C3_DefaultModeUnpushedOnly ==
  (run.kind \in {"cli", "interactive"} /\ ~opts.allowPushed /\ run.rewrites >= 1)
    => ~run.reachable

\* C4: in an interactive session a rewrite call on a pushed commit is made only after
\* the pushed-mode, the per-commit and the final confirmation were answered "yes", and
\* a cycle in which one of them was declined makes no rewrite call and is no error.
C4_StrongConfirmations ==
  /\ (run.kind = "interactive" /\ run.rewrites >= 1 /\ run.reachable)
       => {"mode", "commit", "final"} \subseteq run.confirms
  /\ (run.kind = "interactive" /\ run.declined \in {"mode", "commit", "final"})
       => (run.rewrites = 0 /\ run.errorCode = "none")

\* C5: in CLI mode and in an interactive cycle, a new date equal to the commit's
\* authored date to the minute leads to no rewrite call (stated for runs in which no
\* VCS command failed).
C5_NoOpShortCircuit ==
  (run.kind \in {"cli", "interactive"} /\ ~run.faulted /\ run.target # 0
     /\ run.newDate # NoDate /\ MinuteOf(run.newDate) = MinuteOf(run.oldDate))
    => run.rewrites = 0

\* C6: validateDate refuses every candidate later than the clock, whatever the
\* neighbours' dates are (null or not), and gives the future-date reason even when the
\* candidate is outside a neighbour bound too; validateAndChange then makes no rewrite call.
C6_FutureRejected ==
  (run.kind \in {"validateDate", "validateAndChange"} /\ run.newDate > now)
    => (~run.success /\ run.errorCode = "futureDate" /\ run.rewrites = 0 /\ ~run.rewriteOk)

C6_Witness ==
  /\ run.kind = "validateAndChange"
  /\ run.newDate > now
  /\ run.prevDate # NoDate
  /\ run.newDate < run.prevDate
  /\ run.errorCode = "futureDate"

\* C7: the interval is closed at both ends. A candidate equal to the previous commit's
\* date, or to the next commit's date, is never refused for that bound, and is accepted
\* when it is not later than the clock and not outside the other bound; a candidate one
\* unit before the previous date or one unit after the next date is refused, and
\* validateAndChange then makes no rewrite call.
C7_ClosedInterval ==
  run.kind \in {"validateDate", "validateAndChange"} =>
    LET accepted == run.errorCode \in {"none", "gitError"}
        called == (run.kind = "validateAndChange" => run.rewrites = 1)
    IN  /\ (run.prevDate # NoDate /\ run.newDate = run.prevDate)
             => /\ run.errorCode # "beforePrevious"
                /\ (run.newDate <= now /\ (run.nextDate = NoDate \/ run.newDate <= run.nextDate))
                     => (accepted /\ called)
        /\ (run.nextDate # NoDate /\ run.newDate = run.nextDate)
             => /\ run.errorCode # "afterNext"
                /\ (run.newDate <= now /\ (run.prevDate = NoDate \/ run.newDate >= run.prevDate))
                     => (accepted /\ called)
        /\ (run.prevDate # NoDate /\ run.newDate = run.prevDate - 1)
             => (~run.success /\ ~accepted /\ run.rewrites = 0)
        /\ (run.nextDate # NoDate /\ run.newDate = run.nextDate + 1)
             => (~run.success /\ ~accepted /\ run.rewrites = 0)

C7_Witness ==
  /\ run.kind = "validateAndChange"
  /\ run.prevDate # NoDate
  /\ run.prevDate < run.newDate
  /\ run.newDate = run.nextDate
  /\ run.success
  /\ run.rewrites = 1

\* C8: getValidDateRange(prev, next) answers min = prev (null when there is no previous
\* commit) and max = next when next is given and earlier than the clock, the clock
\* otherwise: max is the smaller of the clock and next.
C8_ValidDateRange ==
  run.kind = "getValidDateRange" =>
    /\ run.min = run.prevDate
    /\ run.max = (IF run.nextDate # NoDate /\ run.nextDate < now THEN run.nextDate ELSE now)
    /\ (run.nextDate # NoDate => run.max = Min(now, run.nextDate))
    /\ (run.nextDate = NoDate => run.max = now)

C8_Witness ==
  /\ run.kind = "getValidDateRange"
  /\ run.prevDate = NoDate
  /\ run.nextDate # NoDate
  /\ run.nextDate < now
  /\ run.max = run.nextDate
  /\ run.min = NoDate

\* C9: execute on a pushed commit with allowPushed and noConfirm and a date inside the
\* window of the commit's neighbours answers success with commit.isPushed = true, after
\* exactly one rewrite call and one cleanup attempt (stated for runs in which no VCS
\* command failed).
C9_PushedWithOverride ==
  (/\ run.kind = "cli" /\ ~run.faulted
   /\ opts.allowPushed /\ opts.noConfirm
   /\ run.target # 0 /\ run.reachable
   /\ run.newDate # NoDate /\ run.newDate <= now
   /\ (run.target < Len(history) => run.newDate >= history[run.target + 1].authorDate)
   /\ (run.target > 1 => run.newDate <= history[run.target - 1].authorDate))
    => (run.success /\ run.isPushed /\ run.rewrites = 1 /\ run.cleanups = 1)

\* C10: a result of execute with errorCode INVALID_DATE_FORMAT, COMMIT_NOT_FOUND,
\* DATE_PARSING_ERROR or DATE_OUT_OF_RANGE comes with no rewrite call: the invocation
\* leaves the history, the pushed commits and refs/original/ as they were.
C10_InputErrorsBeforeRewrite ==
  [][(run'.kind = "cli"
        /\ run'.errorCode \in {"INVALID_DATE_FORMAT", "COMMIT_NOT_FOUND",
                               "DATE_PARSING_ERROR", "DATE_OUT_OF_RANGE"})
       => (run'.rewrites = 0 /\ ~run'.success /\ UNCHANGED <<history, nPushed, backupRefs>>)]_vars

C10_Witness ==
  /\ run.kind = "cli"
  /\ run.errorCode = "DATE_OUT_OF_RANGE"
  /\ run.target # 0
  /\ run.rewrites = 0

\* C11: whenever a VCS command fails during a CLI invocation (a listing's log, upstream
\* lookup or reachability query, or the rewrite), execute returns a failure with
\* errorCode EXECUTION_ERROR, and it makes the rewrite call at most once.  (A failing
\* cleanup of refs/original/ is left out: it is best-effort.)
C11_ExecutionErrorOnFailure ==
  (run.kind = "cli" /\ run.failed \cap {"log", "upstream", "contains", "rewrite"} # {})
    => (~run.success /\ run.errorCode = "EXECUTION_ERROR" /\ run.rewrites <= 1)

\* the codes CliRunner.execute returns
ExecuteCodes ==
  {"INVALID_DATE_FORMAT", "COMMIT_NOT_FOUND", "PUSHED_REQUIRES_CONFIRM",
   "DATE_PARSING_ERROR", "DATE_OUT_OF_RANGE", "EXECUTION_ERROR"}

\* C12 (as stated): every structured failure result of non-interactive use carries one
\* of the six codes INVALID_DATE_FORMAT, COMMIT_NOT_FOUND, PUSHED_REQUIRES_CONFIRM,
\* DATE_PARSING_ERROR, DATE_OUT_OF_RANGE, EXECUTION_ERROR.
C12_SixCodes ==
  (run.kind \in {"cli", "precondition"} /\ run.structured /\ ~run.success)
    => run.errorCode \in ExecuteCodes

\* C12 (amended): a failure result returned by execute carries one of the six codes;
\* the structured failure main() prints itself with --json carries UNCOMMITTED_CHANGES
\* when the working tree has uncommitted changes and MISSING_REQUIRED_OPTIONS when
\* only one of --hash and --date is given on a clean tree.
C12_ErrorCodes ==
  (run.structured /\ ~run.success)
    => /\ run.kind \in {"cli", "precondition"}
       /\ (run.kind = "cli" => run.errorCode \in ExecuteCodes)
       /\ (run.kind = "precondition"
             => /\ opts.json
                /\ run.errorCode \in {"UNCOMMITTED_CHANGES", "MISSING_REQUIRED_OPTIONS"}
                /\ (run.errorCode = "UNCOMMITTED_CHANGES" <=> workTree = "dirty")
                /\ (run.errorCode = "MISSING_REQUIRED_OPTIONS"
                      <=> (workTree = "clean" /\ opts.mode = "partial")))

C12_Witness ==
  /\ run.kind = "precondition"
  /\ run.structured
  /\ run.errorCode = "UNCOMMITTED_CHANGES"
  /\ opts.mode = "cli"

\* C13: when the working directory is not a git repository or has uncommitted changes,
\* main() - whatever the mode asked for - ends with a non-zero exit status without any
\* listing and without any rewrite call: it never gets past its preconditions.
C13_PreconditionsAreHardStops ==
  workTree \in {"notRepo", "dirty"}
    => /\ pc \in {"start", "exit"}
       /\ run.kind \in {"none", "precondition"}
       /\ commits = <<>>
       /\ run.rewrites = 0 /\ run.cleanups = 0 /\ ~backupRefs
       /\ \A p \in Positions : history[p].fullHash[3] = p
       /\ (pc = "exit" => (run.exit = "1" /\ ~run.success))

C13_Witness ==
  /\ workTree = "dirty"
  /\ pc = "exit"
  /\ opts.mode = "interactive"
  /\ run.kind = "precondition"
  /\ run.exit = "1"

\* C14: an invocation in CLI mode ends with exit status 0 exactly when the result of
\* execute has success = true, and with exit status 1 for every failure result.
C14_ExitStatus ==
  (pc = "exit" /\ run.kind = "cli")
    => /\ (run.exit = "0" <=> run.success)
       /\ (~run.success => run.exit = "1")
       /\ (run.success <=> run.errorCode = "none")

C14_Witness ==
  /\ pc = "exit"
  /\ run.kind = "cli"
  /\ run.success
  /\ run.rewriteOk
  /\ run.exit = "0"

\* C15: a successful rewrite sets the author date and the committer date of exactly the
\* target commit to the new date; every other commit keeps its two dates and its
\* content (message, author identity), the target keeps its content, and only the
\* target and the commits after it may get a new id.  For a root target and any other.
C15_RewriteFrame ==
  [][(run'.kind \in {"changeCommitDate", "changeCommitDateRebase"} /\ run'.rewriteOk)
       => LET target == run'.target
          IN  /\ Len(history') = Len(history)
              /\ history'[target].authorDate = run'.newDate
              /\ history'[target].committerDate = run'.newDate
              /\ \A p \in Positions :
                   /\ history'[p].content = history[p].content
                   /\ (p # target => /\ history'[p].authorDate = history[p].authorDate
                                     /\ history'[p].committerDate = history[p].committerDate)
                   /\ (p > target => history'[p].fullHash = history[p].fullHash)]_vars

\* C16: findCommitByHash returns the first commit, in newest-first order, of the listing
\* of its scope (taken with limit 100) whose short id equals the token, whose full id
\* equals the token, or whose full id starts with the token; it returns null when no
\* commit of that listing matches.
C16_FirstMatch ==
  (run.kind = "findCommitByHash" /\ "log" \notin run.failed)
    => LET token == opts.hash
           matches(c) == \/ c.hash = token
                         \/ c.fullHash = token
                         \/ /\ Len(token) <= Len(c.fullHash)
                            /\ \A k \in 1..Len(token) : c.fullHash[k] = token[k]
           M == {i \in DOMAIN commits : matches(commits[i])}
       IN  /\ Len(commits) <= CliLimit
           /\ (~opts.allowPushed => \A i \in DOMAIN commits : ~commits[i].isPushed)
           /\ IF M = {}
              THEN ~run.success /\ run.target = 0
              ELSE /\ run.success
                   /\ run.target \in Positions
                   /\ \E i \in M : /\ \A j \in M : i <= j
                                   /\ commits[i].fullHash = history[run.target].fullHash
                                   /\ commits[i].authorDate = run.oldDate

C16_Witness ==
  /\ run.kind = "findCommitByHash"
  /\ run.success
  /\ \E i, j \in DOMAIN commits :
       /\ i < j
       /\ commits[i].hash = opts.hash
       /\ commits[j].hash = opts.hash
       /\ commits[i].fullHash = history[run.target].fullHash

\* the first n elements of a set of positions
FirstOf(S, n) == {p \in S : Cardinality({q \in S : q < p}) < n}

\* C17 (as stated): the "unpushed only" listing is the commits reachable from HEAD and
\* not from the upstream branch, at most `limit` of them, when an upstream is
\* configured, and the most recent `limit` commits when none is; the "all" listing is
\* the most recent `limit` commits; both newest first.  (Stated for calls in which no
\* VCS query fails.)
C17_ListingScopes ==
  (run.kind \in {"getUnpushedCommits", "getAllCommits"} /\ run.failed = {})
    => LET scope == IF run.kind = "getUnpushedCommits" /\ hasUpstream
                    THEN {p \in Positions : ~Reachable(p)} ELSE Positions
           expected == FirstOf(scope, opts.count)
       IN  /\ Len(commits) = Cardinality(expected)
           /\ \A i \in DOMAIN commits : PosOf(commits[i].fullHash) \in expected
           /\ \A i, j \in DOMAIN commits :
                i < j => PosOf(commits[i].fullHash) < PosOf(commits[j].fullHash)

\* C17 (amended): a listing call that does not reject returns, newest first, the
\* commits of its log range: the most recent `limit` commits for "all"; for "unpushed
\* only" the first `limit` commits not reachable from the upstream when the upstream
\* lookup answers, the most recent `limit` commits otherwise, and of these only the
\* ones whose reachability query did not answer "pushed".  Each entry carries the ids
\* and the author date of its commit and the answer of its reachability query.
C17_ListingOfLogRange ==
  (run.kind \in {"getUnpushedCommits", "getAllCommits"} /\ run.success)
    => LET e == run.env
           unpushedOnly == run.kind = "getUnpushedCommits"
           answer(p) == Reachable(p) /\ p \notin e.q
           range == IF unpushedOnly /\ hasUpstream /\ ~e.up
                    THEN {p \in Positions : ~Reachable(p)} ELSE Positions
           window == FirstOf(range, opts.count)
           expected == IF unpushedOnly THEN {p \in window : ~answer(p)} ELSE window
       IN  /\ Len(commits) = Cardinality(expected)
           /\ \A i \in DOMAIN commits :
                LET p == PosOf(commits[i].fullHash)
                IN  /\ p \in expected
                    /\ commits[i].authorDate = history[p].authorDate
                    /\ commits[i].hash = <<history[p].fullHash[1]>>
                    /\ commits[i].isPushed = answer(p)
           /\ \A i, j \in DOMAIN commits :
                i < j => PosOf(commits[i].fullHash) < PosOf(commits[j].fullHash)

C17_Witness ==
  /\ run.kind = "getUnpushedCommits"
  /\ run.success
  /\ run.failed = {}
  /\ ~hasUpstream
  /\ nPushed >= 1
  /\ commits # <<>>
  /\ Len(commits) < Min(opts.count, Len(history))

\* C18: in an interactive session every rewrite call is made on a listing fetched after
\* the rewrite call before it: the listing the loop holds when a pass starts is a
\* listing of the history as it is then, so between two consecutive rewrite calls a
\* re-fetch of the listing has completed.
C18_RefetchBetweenRewrites ==
  pc = "loop"
    => /\ \E e \in ListEnvs : commits = Listing(opts.allowPushed, opts.count, e)
       /\ \A i \in DOMAIN commits : PosOf(commits[i].fullHash) # 0

C18_Witness ==
  /\ run.kind = "interactive"
  /\ run.earlierRewrites = 1
  /\ run.rewrites = 1
  /\ run.rewriteOk
  /\ cycles = 2

\* C19: a call of validateAndChange goes Requested -> Validating -> Rejected or
\* Rewriting -> Committed or Failed.  The rewrite call is made only after validateDate
\* found the date valid, and then exactly once; a rejected request makes no mutating
\* call and leaves the repository as it was; each request ends in exactly one of the
\* three terminal states.
C19_RequestLifecycle ==
  [][run'.kind = "validateAndChange"
       => LET valid == /\ run'.newDate <= now
                       /\ (run'.prevDate # NoDate => run'.newDate >= run'.prevDate)
                       /\ (run'.nextDate # NoDate => run'.newDate <= run'.nextDate)
              rejected == /\ run'.errorCode \in {"futureDate", "beforePrevious", "afterNext"}
                          /\ ~run'.success
                          /\ run'.rewrites = 0 /\ run'.cleanups = 0
                          /\ UNCHANGED <<history, nPushed, backupRefs>>
              committed == /\ run'.success /\ run'.errorCode = "none"
                           /\ run'.rewrites = 1 /\ run'.rewriteOk
                           /\ history'[run'.target].authorDate = run'.newDate
              failed == /\ run'.errorCode = "gitError" /\ ~run'.success
                        /\ run'.rewrites = 1 /\ ~run'.rewriteOk
          IN  /\ (rejected \/ committed \/ failed)
              /\ ~(rejected /\ committed) /\ ~(rejected /\ failed) /\ ~(committed /\ failed)
              /\ (rejected <=> ~valid)
              /\ (run'.rewrites >= 1 => valid)
              /\ pc' = "called"]_vars

C19_Witness ==
  /\ run.kind = "validateAndChange"
  /\ run.errorCode = "gitError"
  /\ run.rewrites = 1
  /\ ~run.rewriteOk
  /\ run.prevDate # NoDate
  /\ run.nextDate # NoDate

C21_WindowNotEmpty ==
  (run.kind = "getValidDateRange"
     /\ run.min # NoDate
     /\ (run.nextDate # NoDate => run.prevDate <= run.nextDate))
    => run.min <= run.max

\* C21 (amended): ... has min <= max whenever min is defined and the older neighbour's
\* date is not later than the current time.
C21_WindowNotEmptyUnlessFuture ==
  (run.kind = "getValidDateRange"
     /\ run.min # NoDate
     /\ (run.nextDate # NoDate => run.prevDate <= run.nextDate)
     /\ run.prevDate <= now)
    => (run.min = run.prevDate /\ run.min <= run.max)

C21_Witness ==
  /\ run.kind = "getValidDateRange"
  /\ run.min # NoDate
  /\ run.nextDate # NoDate
  /\ run.min < run.nextDate
  /\ run.nextDate < now
  /\ run.max = run.nextDate

\* C22: every rejection of validateDate reports, in its reason, the boundary the date
\* offends: the previous commit's date for "earlier than previous", the next commit's
\* date for "later than next", the current time for "in the future".
C22_RejectionNamesBoundary ==
  (run.kind = "validateDate" /\ ~run.success)
    => /\ run.errorCode \in {"futureDate", "beforePrevious", "afterNext"}
       /\ (run.errorCode = "beforePrevious" => run.bound = run.prevDate)
       /\ (run.errorCode = "afterNext" => run.bound = run.nextDate)
       /\ (run.errorCode = "futureDate" => run.bound = now)

\* C23 (as stated): after a rewrite call that succeeded no reference is left under
\* refs/original/, and the call is reported as a success whatever the cleanup did.
C23_NoBackupRefsAfterSuccess ==
  (run.kind \in {"changeCommitDate", "changeCommitDateRebase"} /\ run.rewriteOk)
    => (run.success /\ ~backupRefs)

\* C23 (amended): a rewrite call of the filter-branch variant that succeeded and whose
\* cleanup did not fail leaves no reference under refs/original/, whether or not there
\* was one to delete; when the cleanup fails the failure is swallowed, the call is
\* still a success, and the references filter-branch created or found stay.  The
\* rebase variant creates no such reference and deletes none.
C23_BackupRefsBestEffort ==
  [][(run'.kind \in {"changeCommitDate", "changeCommitDateRebase"} /\ run'.rewriteOk)
       => /\ run'.success
          /\ (run'.kind = "changeCommitDate"
                => /\ run'.cleanups = 1
                   /\ ("cleanup" \notin run'.failed => ~backupRefs')
                   /\ ("cleanup" \in run'.failed
                         => (backupRefs' <=> (backupRefs \/ history' # history))))
          /\ (run'.kind = "changeCommitDateRebase" => backupRefs' = backupRefs)]_vars

C23_Witness ==
  /\ run.kind = "changeCommitDate"
  /\ run.rewriteOk
  /\ run.success
  /\ "cleanup" \in run.failed
  /\ backupRefs

\* C24: a listing call during which a VCS query fails (the log, the upstream lookup, or
\* a commit's remote-branch reachability query) fails with an error: it returns no
\* listing in which the failed query is answered by a default.
C24_ListingQueryFailureSurfaces ==
  (run.kind \in {"getUnpushedCommits", "getAllCommits"} /\ run.failed # {})
    => (~run.success /\ run.errorCode = "gitError" /\ commits = <<>>)

\* C25: every Commit the accessor constructs has remotes empty if and only if its
\* isPushed is false.
C25_RemotesIffPushed ==
  (run.kind \in {"getUnpushedCommits", "getAllCommits"} /\ run.success)
    => \A i \in DOMAIN commits : (commits[i].remotes = {} <=> ~commits[i].isPushed)

\* C26: a successful rewrite (of CLI mode or of an interactive pass) never leaves the
\* rewritten commit dated earlier than its parent commit or later than its child
\* commit, also when that parent or child is not in the listing the window was taken
\* from (pushed and filtered out of the unpushed scope, or beyond the listing limit).
C26_ConsistentWithAncestry ==
  (run.kind \in {"cli", "interactive"} /\ run.success /\ run.rewriteOk)
    => LET target == run.target
       IN  /\ history[target].authorDate = run.newDate
           /\ (target < Len(history)
                 => history[target].authorDate >= history[target + 1].authorDate)
           /\ (target > 1
                 => history[target].authorDate <= history[target - 1].authorDate)

\* C27: the clock not going backwards, a date accepted by the first validation of an
\* invocation or pass (validateDate in execute, the prompt's validation against the
\* window in interactive mode) is accepted again by validateAndChange, which validates
\* with the same neighbours: the apply step fails only when the rewrite itself fails,
\* and execute reports EXECUTION_ERROR only for a failed VCS command, never for a date
\* outside the window.
C27_SecondValidationAgrees ==
  run.kind \in {"cli", "interactive"}
    => /\ run.applyError \in {"none", "gitError"}
       /\ (run.applyError = "gitError" <=> (run.rewrites = 1 /\ ~run.rewriteOk))
       /\ (run.rewrites = 1 /\ ~run.rewriteOk => "rewrite" \in run.failed)
       /\ (run.kind = "cli" /\ run.errorCode = "EXECUTION_ERROR"
             => run.failed \cap {"log", "rewrite"} # {})
       /\ (run.rewrites = 1
             => /\ run.newDate <= now
                /\ (run.prevDate # NoDate => run.newDate >= run.prevDate)
                /\ (run.nextDate # NoDate => run.newDate <= run.nextDate))

C27_Witness ==
  /\ run.kind = "cli"
  /\ run.success
  /\ run.rewriteOk
  /\ run.newDate = MaxTime - 1
  /\ now = MaxTime
  /\ run.prevDate # NoDate

\* C28: execute reports the first check, in the order date format, commit lookup,
\* pushed-commit gate, date parsing, neighbour window, that the input does not pass:
\* for an input that fails several checks the result carries the code of the earliest
\* one (stated for invocations in which no listing fails).
C28_FirstFailingCheck ==
  (run.kind = "cli" /\ "log" \notin run.failed)
    => LET v == run.violates
       IN  IF "format" \in v THEN run.errorCode = "INVALID_DATE_FORMAT"
           ELSE IF "lookup" \in v THEN run.errorCode = "COMMIT_NOT_FOUND"
           ELSE IF "gate" \in v THEN run.errorCode = "PUSHED_REQUIRES_CONFIRM"
           ELSE IF "parse" \in v THEN run.errorCode = "DATE_PARSING_ERROR"
           ELSE IF "window" \in v THEN run.errorCode = "DATE_OUT_OF_RANGE"
           ELSE run.errorCode \in {"none", "EXECUTION_ERROR"}

C28_Witness ==
  /\ run.kind = "cli"
  /\ run.violates = {"gate", "window"}
  /\ run.errorCode = "PUSHED_REQUIRES_CONFIRM"
  /\ run.rewrites = 0

\* C29: in both modes the window of a rewrite is taken at the listing position of the
\* very commit that is rewritten: the index used to pick the previous and the next
\* entry is the index of the entry whose full id is passed to the rewrite call, also
\* in a listing where two commits share a short id.
C29_WindowOfTheRewrittenCommit ==
  (run.kind \in {"cli", "interactive"} /\ run.rewrites = 1)
    => (run.targetIndex # 0 /\ run.index = run.targetIndex)

\* C30: in an interactive session a failed rewrite call, or any error of a pass other
\* than the cancellation, ends the session: the loop is left, and no pass (hence no
\* rewrite call) comes after a pass in which the rewrite call failed.
C30_FailureEndsSession ==
  run.kind = "interactive"
    => /\ ((run.rewrites = 1 /\ ~run.rewriteOk) => pc = "exit")
       /\ (run.errorCode # "none" => pc = "exit")
       /\ ~run.earlierFailed

\* a session whose first pass rewrote a commit and whose second pass had its rewrite
\* call fail: it is over
C30_Witness ==
  /\ run.kind = "interactive"
  /\ run.earlierRewrites = 1
  /\ run.rewrites = 1
  /\ ~run.rewriteOk
  /\ run.errorCode = "error"
  /\ pc = "exit"

====
